---- MODULE Spec2Model ----
(***************************************************************************)
(* Kitchen Buddy: the ingredient collection, its mutation functions, the   *)
(* date arithmetic of utils/dateUtils.ts, the add/edit form and the        *)
(* useIngredients hook over AsyncStorage.                                  *)
(*                                                                         *)
(* Representation.                                                         *)
(*  - An ISO date string "YYYY-MM-DD" is the triple <<Y, M, D>>; the empty *)
(*    string (no date) is <<>>.                                            *)
(*  - A JavaScript Date is its time value, counted in whole hours since    *)
(*    the epoch (every instant the code builds lies on a whole hour in the *)
(*    time zones modelled).                                                *)
(*  - An id is the number whose decimal string Date.now().toString() is.   *)
(*  - lastRipenessUpdate is <<t>> for a timestamp t and <<>> when absent.  *)
(***************************************************************************)
EXTENDS Integers, Sequences, FiniteSets, TLC

VARIABLES
  \* ---- useIngredients (hooks/useIngredients.ts) ----
  ingredients,        \* useState<Ingredient[]>
  editingIngredient,  \* useState<Ingredient | null>
  isLoading,          \* useState<boolean>
  \* ---- AsyncStorage ----
  stored,             \* the slot 'ingredients_data'
  inflight,           \* storage operations issued and not yet completed
  \* ---- environment ----
  clock,              \* Date.now()
  resetInForce,       \* history: a reset has succeeded and no ingredient was added since
  \* ---- useCamera ----
  camera,             \* isScanning, the fetches awaited and the timeouts pending,
                      \* what the rendered handlers hold, the last lookup's outcome
  zone,               \* the device's time zone
  alert,              \* the Alert.alert shown by the last handler ("" if none)
  \* ---- AddIngredientScreen form state ----
  form,
  \* ---- calls of the pure utility functions ----
  fn,                 \* the function called ("none" before the call)
  args,               \* its arguments
  ret                 \* its result

hookVars == <<ingredients, editingIngredient, isLoading>>
appVars  == <<ingredients, editingIngredient, isLoading, stored, inflight, clock, alert,
              resetInForce, camera>>
callVars == <<fn, args, ret>>
vars     == <<ingredients, editingIngredient, isLoading, stored, inflight, clock, zone, alert,
              form, fn, args, ret, resetInForce, camera>>

----------------------------------------------------------------------------
(* Bounds of the model *)

MaxId == 3
MaxLen == 3

----------------------------------------------------------------------------
(* utils/ingredientUtils.ts *)

NoDate == <<>>
NoStamp == <<>>

\* createEmptyIngredient, with the given id and name
Ingredient(id, name) ==
  [id |-> id, name |-> name, brand |-> "", ripeness |-> "", category |-> "",
   location |-> "", confection |-> "", expiration |-> NoDate,
   lastRipenessUpdate |-> NoStamp, isFrozen |-> FALSE, isOpened |-> FALSE]

Ids(C) == {C[k].id : k \in 1..Len(C)}

DistinctIds(C) == \A j, k \in 1..Len(C) : C[j].id = C[k].id => j = k

updateIngredient_upsert(C, updatedIngredient) ==
  IF updatedIngredient.id \in Ids(C)
  THEN [k \in 1..Len(C) |-> IF C[k].id = updatedIngredient.id THEN updatedIngredient ELSE C[k]]
  ELSE Append(C, updatedIngredient)

\* ingredients.map((item) => item.id === updatedIngredient.id ? updatedIngredient : item)
updateIngredient(C, updatedIngredient) ==
  [k \in 1..Len(C) |-> IF C[k].id = updatedIngredient.id THEN updatedIngredient ELSE C[k]]

\* [...ingredients, newIngredient]
addIngredient(C, newIngredient) == C \o <<newIngredient>>

deleteIngredient_keepsMatch(C, id) ==
  LET p(item) == item.id = id IN SelectSeq(C, p)

\* ingredients.filter((item) => item.id !== id)
deleteIngredient(C, id) ==
  LET p(item) == item.id # id IN SelectSeq(C, p)

----------------------------------------------------------------------------
(* The JavaScript Date the code of utils/dateUtils.ts relies on.           *)

\* 1000 * 60 * 60 * 24 ms, in the model's unit (hours)
HoursPerDay == 24

\* Math.ceil(a / b) for b > 0 (\div rounds down)
CeilDiv(a, b) == -((-a) \div b)

\* Day number (days since 1970-01-01) of a civil date: ECMAScript MakeDay
DaysFromCivil(y, m, d) ==
  LET yy  == IF m <= 2 THEN y - 1 ELSE y
      era == yy \div 400
      yoe == yy - era * 400
      mp  == IF m > 2 THEN m - 3 ELSE m + 9
      doy == (153 * mp + 2) \div 5 + d - 1
      doe == yoe * 365 + yoe \div 4 - yoe \div 100 + doy
  IN  era * 146097 + doe - 719468

\* Civil date <<Y, M, D>> of a day number: ECMAScript YearFromTime/MonthFromTime/DateFromTime
CivilFromDays(n) ==
  LET z   == n + 719468
      era == z \div 146097
      doe == z - era * 146097
      yoe == (doe - doe \div 1460 + doe \div 36524 - doe \div 146096) \div 365
      doy == doe - (365 * yoe + yoe \div 4 - yoe \div 100)
      mp  == (5 * doy + 2) \div 153
      d   == doy - (153 * mp + 2) \div 5 + 1
      m   == IF mp < 10 THEN mp + 3 ELSE mp - 9
      y   == yoe + era * 400
  IN  <<IF m <= 2 THEN y + 1 ELSE y, m, d>>

\* Day of the week of a day number, 0 = Sunday (1970-01-01 was a Thursday)
WeekDay(n) == (n + 4) % 7

\* The n-th Sunday (n >= 1) of month m of year y, as a day number
NthSunday(y, m, n) ==
  LET first == DaysFromCivil(y, m, 1)
  IN  first + ((7 - WeekDay(first)) % 7) + 7 * (n - 1)

\* The host's time zone: the device setting the local-time methods of Date read.
\* std is the standard offset from UTC in hours; dst says whether the zone
\* observes daylight saving time by the United States rule (second Sunday of
\* March 02:00 to first Sunday of November 02:00, local time).
UTC == [name |-> "UTC", std |-> 0, dst |-> FALSE]

Zones ==
  { UTC,
    [name |-> "Asia/Tokyo",       std |-> 9,  dst |-> FALSE],
    [name |-> "America/Bogota",   std |-> -5, dst |-> FALSE],
    [name |-> "America/New_York", std |-> -5, dst |-> TRUE] }

\* The zone's offset from UTC (hours) at the instant t
Offset(z, t) ==
  IF ~z.dst THEN z.std
  ELSE LET y     == CivilFromDays(t \div HoursPerDay)[1]
           start == NthSunday(y, 3, 2) * HoursPerDay + 2 - z.std
           end   == NthSunday(y, 11, 1) * HoursPerDay + 2 - (z.std + 1)
       IN  IF start <= t /\ t < end THEN z.std + 1 ELSE z.std

\* ECMAScript LocalTime(t): the local clock reading at the instant t
LocalTime(z, t) == t + Offset(z, t)

\* ECMAScript UTC(tlocal): a repeated or skipped local time is read with the
\* offset in force before the transition
UTCOfLocal(z, tl) ==
  IF z.dst /\ Offset(z, tl - (z.std + 1)) = z.std + 1
  THEN tl - (z.std + 1)
  ELSE tl - z.std

\* new Date("YYYY-MM-DD"): a date-only ISO string is read as UTC midnight
ParseDate(date) == DaysFromCivil(date[1], date[2], date[3]) * HoursPerDay

\* d.toISOString().split('T')[0]: the UTC calendar date of the instant
ISODate(t) == CivilFromDays(t \div HoursPerDay)

\* d.setHours(0, 0, 0, 0): local midnight of the instant's local day
SetHoursZero(z, t) ==
  UTCOfLocal(z, (LocalTime(z, t) \div HoursPerDay) * HoursPerDay)

\* d.setMonth(d.getMonth() + k): MakeDay(year, month + k, date), local time of day kept
SetMonthPlus(z, t, k) ==
  LET tl  == LocalTime(z, t)
      c   == CivilFromDays(tl \div HoursPerDay)
      m0  == (c[2] - 1) + k
      y   == c[1] + m0 \div 12
      m   == (m0 % 12) + 1
      day == DaysFromCivil(y, m, 1) + c[3] - 1
  IN  UTCOfLocal(z, day * HoursPerDay + (tl % HoursPerDay))

\* d.setDate(d.getDate() + k): MakeDay(year, month, date + k), local time of day kept
SetDatePlus(z, t, k) ==
  LET tl  == LocalTime(z, t)
      c   == CivilFromDays(tl \div HoursPerDay)
      day == DaysFromCivil(c[1], c[2], 1) + c[3] + k - 1
  IN  UTCOfLocal(z, day * HoursPerDay + (tl % HoursPerDay))

----------------------------------------------------------------------------
(* utils/dateUtils.ts.  z is the host's time zone and now the instant of   *)
(* new Date().                                                             *)

\* The "never" value: larger than every day count and every threshold of the model
Infinity == 1000000

getDaysUntilExpiration(z, now, expirationDate) ==
  IF expirationDate = NoDate THEN Infinity
  ELSE LET today   == SetHoursZero(z, now)
           expDate == SetHoursZero(z, ParseDate(expirationDate))
       IN  CeilDiv(expDate - today, HoursPerDay)

isExpiringSoon(z, now, expirationDate, daysThreshold) ==
  IF expirationDate = NoDate THEN FALSE
  ELSE LET daysUntil == getDaysUntilExpiration(z, now, expirationDate)
       IN  daysUntil >= 0 /\ daysUntil <= daysThreshold

adjustExpirationForFrozen(z, expirationDate, isFrozen) ==
  IF expirationDate = NoDate THEN NoDate
  ELSE LET expDate == ParseDate(expirationDate)
       IN  ISODate(IF isFrozen THEN SetMonthPlus(z, expDate, 6) ELSE expDate)

adjustExpirationForOpened(z, expirationDate, isOpened) ==
  IF expirationDate = NoDate THEN NoDate
  ELSE LET expDate == ParseDate(expirationDate)
       IN  ISODate(IF isOpened THEN SetDatePlus(z, expDate, -7) ELSE expDate)

\* lastRipenessUpdate is <<t>>, t the instant of the ISO timestamp, or NoStamp
needsRipenessCheck(z, now, lastRipenessUpdate, daysThreshold) ==
  IF lastRipenessUpdate = NoStamp THEN FALSE
  ELSE LET today      == SetHoursZero(z, now)
           lastUpdate == SetHoursZero(z, lastRipenessUpdate[1])
           diffDays   == CeilDiv(today - lastUpdate, HoursPerDay)
       IN  diffDays > daysThreshold

----------------------------------------------------------------------------
(* utils/ingredientUtils.ts: the views                                      *)

RipeMature == "Ripe/Mature"

getExpiringSoonIngredients_onlyExpiring(z, now, C, daysThreshold) ==
  LET p(item) == item.expiration # NoDate
                   /\ isExpiringSoon(z, now, item.expiration, daysThreshold)
  IN  SelectSeq(C, p)

getExpiringSoonIngredients_frozenExcluded(z, now, C, daysThreshold) ==
  LET p(item) ==
        LET isRelevant == item.ripeness = RipeMature \/ item.isOpened
            isExpiring == item.expiration # NoDate
                            /\ isExpiringSoon(z, now, item.expiration, daysThreshold)
        IN  isRelevant \/ (isExpiring /\ ~item.isFrozen)
  IN  SelectSeq(C, p)

getExpiringSoonIngredients(z, now, C, daysThreshold) ==
  LET p(item) ==
        LET isRelevant  == item.ripeness = RipeMature \/ item.isOpened
            isNotFrozen == ~item.isFrozen
                             \/ isExpiringSoon(z, now, item.expiration, daysThreshold)
            isExpiring  == item.expiration # NoDate
                             /\ isExpiringSoon(z, now, item.expiration, daysThreshold)
        IN  isRelevant \/ (isExpiring /\ isNotFrozen)
  IN  SelectSeq(C, p)

getIngredientsWithMissingData_allMissing(C) ==
  LET p(item) == item.category = "" /\ item.location = "" /\ item.confection = ""
                   /\ item.expiration = NoDate
  IN  SelectSeq(C, p)

getIngredientsWithMissingData(C) ==
  LET p(item) == item.category = "" \/ item.location = "" \/ item.confection = ""
                   \/ item.expiration = NoDate
  IN  SelectSeq(C, p)

\* parseInt(id): the id is the decimal string of Date.now(), held as its number
parseInt(id) == id

\* Array.prototype.sort with the comparator (a, b) => parseInt(b.id) - parseInt(a.id):
\* a stable sort; item goes after the records that do not sort after it
RECURSIVE InsertSorted(_, _)
InsertSorted(S, item) ==
  IF S = <<>> THEN <<item>>
  ELSE IF parseInt(item.id) - parseInt(Head(S).id) > 0
       THEN <<item>> \o S
       ELSE <<Head(S)>> \o InsertSorted(Tail(S), item)

RECURSIVE SortByIdDescending(_)
SortByIdDescending(C) ==
  IF C = <<>> THEN <<>>
  ELSE InsertSorted(SortByIdDescending(SubSeq(C, 1, Len(C) - 1)), C[Len(C)])

getMostRecentIngredients_unsorted(C) == C

\* [...ingredients].sort(...): the copy is sorted, the argument is left as it is
getMostRecentIngredients(C) == SortByIdDescending(C)

getIngredientsNeedingRipenessCheck(z, now, C, daysThreshold) ==
  LET p(item) == needsRipenessCheck(z, now, item.lastRipenessUpdate, daysThreshold)
  IN  SelectSeq(C, p)

----------------------------------------------------------------------------
(* State after construction of the app: useIngredients' useState initial   *)
(* values, the form's, and the fetchIngredients effect's read in flight.   *)

Null == <<>>

\* AddIngredientScreen's useState initial values (also what resetForm sets)
EmptyForm ==
  [name |-> "", brand |-> "", ripeness |-> "", category |-> "", location |-> "",
   confection |-> "", expiration |-> NoDate, lastRipenessUpdate |-> NoStamp,
   isFrozen |-> FALSE, isOpened |-> FALSE]

GetOp == [op |-> "getItem"]
SetOp_empty(C) == [op |-> "setItem", data |-> <<>>]

SetOp(C) == [op |-> "setItem", data |-> C]
RemoveOp == [op |-> "removeItem"]

\* JSON.stringify(ingredients): the text lists, record by record, the values of
\* the keys in the order id, name, brand, ripeness, category, location,
\* confection, expiration, lastRipenessUpdate, isFrozen, isOpened
JSON_stringify(C) ==
  [k \in 1..Len(C) |->
     <<C[k].id, C[k].name, C[k].brand, C[k].ripeness, C[k].category, C[k].location,
       C[k].confection, C[k].expiration, C[k].lastRipenessUpdate, C[k].isFrozen,
       C[k].isOpened>>]

\* JSON.parse of a text that JSON.stringify wrote
JSON_parse(text) ==
  [k \in 1..Len(text) |->
     [id |-> text[k][1], name |-> text[k][2], brand |-> text[k][3], ripeness |-> text[k][4],
      category |-> text[k][5], location |-> text[k][6], confection |-> text[k][7],
      expiration |-> text[k][8], lastRipenessUpdate |-> text[k][9], isFrozen |-> text[k][10],
      isOpened |-> text[k][11]]]

\* The slot: absent, holding the text of a collection, or holding a text that
\* JSON.parse rejects
Absent == [kind |-> "absent"]
Json(C) == [kind |-> "json", text |-> JSON_stringify(C)]
Corrupt == [kind |-> "corrupt"]

\* useCamera's useState initial values: not scanning, nothing awaited.
\* shown is the isScanning of the render whose handlers are installed; stale
\* counts the awaited lookups whose onAddIngredient was captured from a render
\* with an editing record set; last is the outcome of the last scan step.
CameraIdle == [isScanning |-> FALSE, fetching |-> 0, timers |-> 0, shown |-> FALSE,
               stale |-> 0, last |-> "none"]

AppIdle ==
  /\ camera = CameraIdle
  /\ ingredients = <<>>
  /\ editingIngredient = Null
  /\ isLoading = TRUE
  /\ stored = Absent
  /\ inflight = <<GetOp>>
  /\ clock = 1
  /\ alert = ""
  /\ form = EmptyForm
  /\ resetInForce = FALSE

NoCall ==
  /\ fn = "none"
  /\ args = <<>>
  /\ ret = <<>>

----------------------------------------------------------------------------
(* Calls of the mutation functions of utils/ingredientUtils.ts on every    *)
(* collection of at most MaxLen records.                                   *)

Names == {"milk", "egg"}

MutIngredients == {Ingredient(i, n) : i \in 1..MaxId, n \in Names}

Collections == UNION {[1..n -> MutIngredients] : n \in 0..MaxLen}

InitMut ==
  /\ AppIdle
  /\ zone = UTC
  /\ fn = "none"
  /\ args \in [coll : Collections, item : MutIngredients]
  /\ ret = <<>>

call_addIngredient ==
  /\ fn = "none"
  /\ fn' = "addIngredient"
  /\ ret' = addIngredient(args.coll, args.item)
  /\ UNCHANGED <<appVars, zone, form, args>>

call_updateIngredient ==
  /\ fn = "none"
  /\ fn' = "updateIngredient"
  /\ ret' = updateIngredient(args.coll, args.item)
  /\ UNCHANGED <<appVars, zone, form, args>>

call_deleteIngredient ==
  /\ fn = "none"
  /\ fn' = "deleteIngredient"
  /\ ret' = deleteIngredient(args.coll, args.item.id)
  /\ UNCHANGED <<appVars, zone, form, args>>

\* deleteIngredient(addIngredient(C, i), i.id)
call_deleteAfterAdd ==
  /\ fn = "none"
  /\ fn' = "deleteAfterAdd"
  /\ ret' = deleteIngredient(addIngredient(args.coll, args.item), args.item.id)
  /\ UNCHANGED <<appVars, zone, form, args>>

NextMut ==
  \/ call_addIngredient
  \/ call_updateIngredient
  \/ call_deleteIngredient
  \/ call_deleteAfterAdd

SpecMut == InitMut /\ [][NextMut]_vars

----------------------------------------------------------------------------
(* Calls of the functions of utils/dateUtils.ts, in every modelled time    *)
(* zone, at several instants of several days.                              *)

\* Expiration dates: DaySpan + 1 consecutive days from 2024-01-01
DaySpan == 430
YearDates == {CivilFromDays(DaysFromCivil(2024, 1, 1) + k) : k \in 0..DaySpan}

\* new Date(): hours of NowDays + 1 consecutive days from 2024-10-30 (UTC)
NowDays == 5
NowHours == {0, 4, 12, 23}
Nows == {(DaysFromCivil(2024, 10, 30) + d) * HoursPerDay + h : d \in 0..NowDays, h \in NowHours}

MaxThreshold == 8
Thresholds == 0..MaxThreshold

\* Dates around the instants of Nows: from Margin days before the first to
\* Margin days after the last plus the largest threshold
Margin == 3
NearDates ==
  {CivilFromDays(DaysFromCivil(2024, 10, 30) + k) : k \in (-Margin)..(NowDays + MaxThreshold + Margin)}

DateCalls ==
  [f : {"getDaysUntilExpiration"}, now : Nows, date : YearDates \cup {NoDate}]
  \cup [f : {"isExpiringSoon"}, now : Nows, date : NearDates \cup {NoDate},
        daysThreshold : Thresholds]
  \cup [f : {"adjustExpirationForFrozen", "adjustExpirationForOpened"},
        date : YearDates \cup {NoDate}, flag : BOOLEAN]

InitDate ==
  /\ AppIdle
  /\ zone \in Zones
  /\ fn = "none"
  /\ args \in DateCalls
  /\ ret = <<>>

call_getDaysUntilExpiration ==
  /\ fn = "none" /\ args.f = "getDaysUntilExpiration"
  /\ fn' = args.f
  /\ ret' = getDaysUntilExpiration(zone, args.now, args.date)
  /\ UNCHANGED <<appVars, zone, form, args>>

call_isExpiringSoon ==
  /\ fn = "none" /\ args.f = "isExpiringSoon"
  /\ fn' = args.f
  /\ ret' = isExpiringSoon(zone, args.now, args.date, args.daysThreshold)
  /\ UNCHANGED <<appVars, zone, form, args>>

call_adjustExpirationForFrozen ==
  /\ fn = "none" /\ args.f = "adjustExpirationForFrozen"
  /\ fn' = args.f
  /\ ret' = adjustExpirationForFrozen(zone, args.date, args.flag)
  /\ UNCHANGED <<appVars, zone, form, args>>

call_adjustExpirationForOpened ==
  /\ fn = "none" /\ args.f = "adjustExpirationForOpened"
  /\ fn' = args.f
  /\ ret' = adjustExpirationForOpened(zone, args.date, args.flag)
  /\ UNCHANGED <<appVars, zone, form, args>>

NextDate ==
  \/ call_getDaysUntilExpiration
  \/ call_isExpiringSoon
  \/ call_adjustExpirationForFrozen
  \/ call_adjustExpirationForOpened

SpecDate == InitDate /\ [][NextDate]_vars

----------------------------------------------------------------------------
(* hooks/useIngredients.ts over utils/storageUtils.ts: the hook as its      *)
(* caller drives it.  fn and args record the last method called, its        *)
(* argument and the state it was called in; ret is what the storage         *)
(* function that completed last returned (<<>> after any other step).       *)
(*                                                                          *)
(* AsyncStorage runs the operations issued to it one at a time, in the      *)
(* order issued; each may fail.  The code awaiting an operation continues   *)
(* in the step that completes it.                                           *)

HookMaxId == 2
HookMaxLen == 2
MaxInflight == 2

NameRequired == "Ingredient name is required!"
ResetSuccess == "All ingredients have been deleted."
ResetFailed == "Failed to reset ingredients."

\* What a caller may pass to saveIngredient ("" is a missing name)
HookIngredients == {Ingredient(i, n) : i \in 1..HookMaxId, n \in Names \cup {""}}

\* What the storage slot may hold when the app starts
InitialStores == {Absent, Corrupt, Json(<<>>), Json(<<Ingredient(1, "milk")>>)}

Pre == [ingredients |-> ingredients, editingIngredient |-> editingIngredient,
        isLoading |-> isLoading, stored |-> stored, inflight |-> inflight]

\* if (!ingredient.name)
NameMissing_never(ingredient) == FALSE

NameMissing_inverted(ingredient) == ingredient.name # ""

NameMissing(ingredient) == ingredient.name = ""

\* setIngredients((prev) => prev.map((item) => (item.id === ingredient.id ? ingredient : item)))
setIngredients_update(prev, ingredient) ==
  [k \in 1..Len(prev) |-> IF prev[k].id = ingredient.id THEN ingredient ELSE prev[k]]

\* setIngredients((prev) => [...prev, ingredient])
setIngredients_append(prev, ingredient) == prev \o <<ingredient>>

setIngredients_save_alwaysAppends(prev, editing, ingredient) ==
  setIngredients_append(prev, ingredient)

\* saveIngredient's choice: update when an editing record is set, append otherwise
setIngredients_save(prev, editing, ingredient) ==
  IF editing # Null
  THEN setIngredients_update(prev, ingredient)
  ELSE setIngredients_append(prev, ingredient)

setIngredients_filter_dropsFirst(prev, id) ==
  IF prev = <<>> THEN <<>> ELSE Tail(prev)

\* setIngredients((prev) => prev.filter((item) => item.id !== id))
setIngredients_filter(prev, id) ==
  LET p(item) == item.id # id IN SelectSeq(prev, p)

\* The effect on [ingredients, isLoading], run after a render that changed
\* one of them: if (!isLoading) saveIngredients(ingredients)
SaveEffect_ignoresLoading(q, C, loading) == Append(q, SetOp(C))

SaveEffect(q, C, loading) == IF ~loading THEN Append(q, SetOp(C)) ELSE q

\* Room in the model's bound on operations in flight for one more
Room == Len(inflight) < MaxInflight

Loaded_ignoresFailure(ok) ==
  IF stored.kind = "json" THEN JSON_parse(stored.text) ELSE <<Ingredient(1, "milk")>>

\* loadIngredients' result for a completed (ok) or failed getItem; JSON.parse
\* throws on a corrupt text, which the catch turns into []
Loaded(ok) == IF ok /\ stored.kind = "json" THEN JSON_parse(stored.text) ELSE <<>>

Saved_truncatesOnFailure(ok, C) == IF ok THEN Json(C) ELSE Json(<<>>)

\* The slot after saveIngredients(C) with a completed (ok) or failed setItem
Saved(ok, C) == IF ok THEN Json(C) ELSE stored

\* The slot after clearAllIngredients with a completed (ok) or failed removeItem
Cleared(ok) == IF ok THEN Absent ELSE stored

InitHook ==
  /\ ingredients = <<>>
  /\ editingIngredient = Null
  /\ isLoading = TRUE
  /\ stored \in InitialStores
  /\ inflight = <<GetOp>>
  /\ clock = 1
  /\ zone = UTC
  /\ alert = ""
  /\ form = EmptyForm
  /\ resetInForce = FALSE
  /\ camera = CameraIdle
  /\ NoCall

hook_saveIngredient(ingredient) ==
  /\ IF NameMissing(ingredient)
     THEN /\ alert' = NameRequired
          /\ UNCHANGED <<hookVars, inflight, resetInForce>>
     ELSE /\ isLoading \/ Room
          /\ editingIngredient # Null \/ Len(ingredients) < HookMaxLen
          /\ ingredients' = setIngredients_save(ingredients, editingIngredient, ingredient)
          /\ editingIngredient' = Null
          /\ inflight' = SaveEffect(inflight, ingredients', isLoading)
          /\ alert' = ""
          /\ resetInForce' = (resetInForce /\ editingIngredient # Null)
          /\ UNCHANGED isLoading
  /\ ret' = <<>>
  /\ UNCHANGED <<stored, clock, zone, camera, form>>

useIngredients_saveIngredient(ingredient) ==
  /\ fn' = "saveIngredient"
  /\ args' = [ingredient |-> ingredient, pre |-> Pre]
  /\ hook_saveIngredient(ingredient)

hook_deleteIngredient(id) ==
  /\ isLoading \/ Room
  /\ ingredients' = setIngredients_filter(ingredients, id)
  /\ inflight' = SaveEffect(inflight, ingredients', isLoading)
  /\ alert' = ""
  /\ ret' = <<>>
  /\ UNCHANGED <<editingIngredient, isLoading, stored, clock, zone, camera, resetInForce, form>>

useIngredients_deleteIngredient(id) ==
  /\ fn' = "deleteIngredient"
  /\ args' = [id |-> id, pre |-> Pre]
  /\ hook_deleteIngredient(id)

hook_startEditing(ingredient) ==
  /\ editingIngredient' = <<ingredient>>
  /\ alert' = ""
  /\ ret' = <<>>
  /\ UNCHANGED <<ingredients, isLoading, stored, inflight, clock, zone, camera, resetInForce, form>>

useIngredients_startEditing(ingredient) ==
  /\ fn' = "startEditing"
  /\ args' = [ingredient |-> ingredient, pre |-> Pre]
  /\ hook_startEditing(ingredient)

hook_cancelEditing ==
  /\ editingIngredient' = Null
  /\ alert' = ""
  /\ ret' = <<>>
  /\ UNCHANGED <<ingredients, isLoading, stored, inflight, clock, zone, camera, resetInForce, form>>

useIngredients_cancelEditing ==
  /\ fn' = "cancelEditing"
  /\ args' = [pre |-> Pre]
  /\ hook_cancelEditing

\* resetIngredients, the confirmation answered "Cancel"
hook_resetIngredients_cancel ==
  /\ alert' = ""
  /\ ret' = <<>>
  /\ UNCHANGED <<hookVars, stored, inflight, clock, zone, camera, resetInForce, form>>

useIngredients_resetIngredients_cancel ==
  /\ fn' = "resetIngredients.cancel"
  /\ args' = [pre |-> Pre]
  /\ hook_resetIngredients_cancel

\* resetIngredients, the confirmation answered "Yes": clearAllIngredients() is issued
hook_resetIngredients_yes ==
  /\ Room
  /\ inflight' = Append(inflight, RemoveOp)
  /\ alert' = ""
  /\ ret' = <<>>
  /\ UNCHANGED <<hookVars, stored, clock, zone, camera, resetInForce, form>>

useIngredients_resetIngredients_yes ==
  /\ fn' = "resetIngredients.yes"
  /\ args' = [pre |-> Pre]
  /\ hook_resetIngredients_yes

\* getItem completes: loadIngredients returns (ret) and fetchIngredients
\* continues with setIngredients(storedIngredients); setIsLoading(false)
hook_fetchIngredients(ok) ==
  /\ inflight # <<>> /\ Head(inflight).op = "getItem"
  /\ ingredients' = Loaded(ok)
  /\ isLoading' = FALSE
  /\ inflight' = SaveEffect(Tail(inflight), ingredients', isLoading')
  /\ ret' = ingredients'
  /\ alert' = ""
  /\ UNCHANGED <<editingIngredient, stored, clock, zone, camera, resetInForce, form>>

getItem_completes(ok) ==
  /\ fn' = "fetchIngredients"
  /\ args' = [ok |-> ok, pre |-> Pre]
  /\ hook_fetchIngredients(ok)

\* setItem completes: saveIngredients returns ok (ret), which the effect ignores
hook_saveIngredients(ok) ==
  /\ inflight # <<>> /\ Head(inflight).op = "setItem"
  /\ stored' = Saved(ok, Head(inflight).data)
  /\ inflight' = Tail(inflight)
  /\ ret' = ok
  /\ alert' = ""
  /\ UNCHANGED <<hookVars, clock, zone, camera, resetInForce, form>>

setItem_completes(ok) ==
  /\ fn' = "saveIngredients"
  /\ args' = [ok |-> ok, pre |-> Pre]
  /\ hook_saveIngredients(ok)

hook_clearAllIngredients_emptiesOnFailure(ok) ==
  /\ inflight # <<>> /\ Head(inflight).op = "removeItem"
  /\ stored' = Cleared(ok)
  /\ ingredients' = <<>>
  /\ inflight' = SaveEffect(Tail(inflight), ingredients', isLoading)
  /\ alert' = IF ok THEN ResetSuccess ELSE ResetFailed
  /\ ret' = ok
  /\ resetInForce' = (ok \/ resetInForce)
  /\ UNCHANGED <<editingIngredient, isLoading, clock, zone, camera, form>>

\* removeItem completes: clearAllIngredients returns ok (ret) and the "Yes"
\* handler continues
hook_clearAllIngredients(ok) ==
  /\ inflight # <<>> /\ Head(inflight).op = "removeItem"
  /\ stored' = Cleared(ok)
  /\ IF ok
     THEN /\ ingredients' = <<>>
          /\ inflight' = SaveEffect(Tail(inflight), ingredients', isLoading)
          /\ alert' = ResetSuccess
     ELSE /\ inflight' = Tail(inflight)
          /\ alert' = ResetFailed
          /\ UNCHANGED ingredients
  /\ ret' = ok
  /\ resetInForce' = (ok \/ resetInForce)
  /\ UNCHANGED <<editingIngredient, isLoading, clock, zone, camera, form>>

removeItem_completes(ok) ==
  /\ fn' = "clearAllIngredients"
  /\ args' = [ok |-> ok, pre |-> Pre]
  /\ hook_clearAllIngredients(ok)

\* The app is closed and started again: the hook's state is constructed anew
\* and the load effect issues its read; the operations the closed app had not
\* completed are lost, the slot stays as it is
hook_restart ==
  /\ ingredients' = <<>>
  /\ editingIngredient' = Null
  /\ isLoading' = TRUE
  /\ inflight' = <<GetOp>>
  /\ alert' = ""
  /\ ret' = <<>>
  /\ UNCHANGED <<stored, clock, zone, camera, resetInForce, form>>

appRestart ==
  /\ fn' = "appRestart"
  /\ args' = [pre |-> Pre]
  /\ hook_restart

NextHook ==
  \/ \E ingredient \in HookIngredients : useIngredients_saveIngredient(ingredient)
  \/ \E id \in 1..HookMaxId : useIngredients_deleteIngredient(id)
  \/ \E k \in 1..Len(ingredients) : useIngredients_startEditing(ingredients[k])
  \/ useIngredients_cancelEditing
  \/ useIngredients_resetIngredients_cancel
  \/ useIngredients_resetIngredients_yes
  \/ \E ok \in BOOLEAN : getItem_completes(ok)
  \/ \E ok \in BOOLEAN : setItem_completes(ok)
  \/ \E ok \in BOOLEAN : removeItem_completes(ok)
  \/ appRestart

SpecHook == InitHook /\ [][NextHook]_vars

----------------------------------------------------------------------------
(* The same hook, from an empty slot, with a different history: args.gone is *)
(* the set of ids whose records were removed from the collection by         *)
(* deleteIngredient or by a confirmed reset and have not been appended by   *)
(* saveIngredient since.  fn is not used.                                   *)

Gone(ids) == [gone |-> ids]

InitLife ==
  /\ AppIdle
  /\ zone = UTC
  /\ fn = "none"
  /\ args = Gone({})
  /\ ret = <<>>

Life_saveIngredient(ingredient) ==
  /\ args' = IF ~NameMissing(ingredient) /\ editingIngredient = Null
             THEN Gone(args.gone \ {ingredient.id})
             ELSE args
  /\ UNCHANGED fn
  /\ hook_saveIngredient(ingredient)

Life_deleteIngredient(id) ==
  /\ args' = Gone(args.gone \cup ({id} \cap Ids(ingredients)))
  /\ UNCHANGED fn
  /\ hook_deleteIngredient(id)

Life_startEditing(ingredient) ==
  /\ UNCHANGED <<fn, args>>
  /\ hook_startEditing(ingredient)

Life_cancelEditing ==
  /\ UNCHANGED <<fn, args>>
  /\ hook_cancelEditing

Life_resetIngredients_yes ==
  /\ UNCHANGED <<fn, args>>
  /\ hook_resetIngredients_yes

Life_fetchIngredients(ok) ==
  /\ UNCHANGED <<fn, args>>
  /\ hook_fetchIngredients(ok)

Life_saveIngredients(ok) ==
  /\ UNCHANGED <<fn, args>>
  /\ hook_saveIngredients(ok)

Life_clearAllIngredients(ok) ==
  /\ args' = IF ok THEN Gone(args.gone \cup Ids(ingredients)) ELSE args
  /\ UNCHANGED fn
  /\ hook_clearAllIngredients(ok)

Life_restart ==
  /\ UNCHANGED <<fn, args>>
  /\ hook_restart

NextLife ==
  \/ \E ingredient \in HookIngredients : Life_saveIngredient(ingredient)
  \/ \E id \in 1..HookMaxId : Life_deleteIngredient(id)
  \/ \E k \in 1..Len(ingredients) : Life_startEditing(ingredients[k])
  \/ Life_cancelEditing
  \/ Life_resetIngredients_yes
  \/ \E ok \in BOOLEAN : Life_fetchIngredients(ok)
  \/ \E ok \in BOOLEAN : Life_saveIngredients(ok)
  \/ \E ok \in BOOLEAN : Life_clearAllIngredients(ok)
  \/ Life_restart

SpecLife == InitLife /\ [][NextLife]_vars

----------------------------------------------------------------------------
(* AddIngredientScreen: the add/edit form.  fn and args record the last     *)
(* handler run and the form state it ran in; ret is what the last handler   *)
(* handed to onSaveIngredient, <<>> when it made no call.                   *)

FormNames == {"", "milk"}

\* The dates the user picks in the DateTimePicker
PickDates == {<<2024, 8, 31>>, <<2024, 10, 8>>, <<2024, 11, 4>>}

\* The toggles are followed while the expiration lies in the FormDaySpan days
\* from 2024-06-01
FormDaySpan == 400
InWindow(date) ==
  IF date = NoDate
  THEN TRUE
  ELSE /\ DaysFromCivil(2024, 6, 1) <= DaysFromCivil(date[1], date[2], date[3])
       /\ DaysFromCivil(date[1], date[2], date[3]) <= DaysFromCivil(2024, 6, 1) + FormDaySpan

\* setIsFrozen((prev) => { newState = !prev;
\*   if (expiration) setExpiration(adjustExpirationForFrozen(expiration, newState)); ... })
FrozenToggled(z, f) ==
  [f EXCEPT !.isFrozen = ~f.isFrozen,
            !.expiration = IF f.expiration # NoDate
                           THEN adjustExpirationForFrozen(z, f.expiration, ~f.isFrozen)
                           ELSE f.expiration]

\* setIsOpened((prev) => { newState = !prev;
\*   if (expiration) setExpiration(adjustExpirationForOpened(expiration, newState)); ... })
OpenedToggled(z, f) ==
  [f EXCEPT !.isOpened = ~f.isOpened,
            !.expiration = IF f.expiration # NoDate
                           THEN adjustExpirationForOpened(z, f.expiration, ~f.isOpened)
                           ELSE f.expiration]

\* The ingredient handleSaveIngredient builds from the form at instant now
NewIngredient(f, editing, now) ==
  [id |-> IF editing # Null THEN editing[1].id ELSE now,
   name |-> f.name, brand |-> f.brand, ripeness |-> f.ripeness, category |-> f.category,
   location |-> f.location, confection |-> f.confection, expiration |-> f.expiration,
   lastRipenessUpdate |-> IF f.lastRipenessUpdate # NoStamp THEN f.lastRipenessUpdate ELSE <<now>>,
   isFrozen |-> f.isFrozen, isOpened |-> f.isOpened]

InitForm ==
  /\ AppIdle
  /\ zone \in Zones
  /\ NoCall

\* TextInput onChangeText={setName}
onChangeText_name(n) ==
  /\ fn' = "setName"
  /\ args' = [pre |-> form]
  /\ form' = [form EXCEPT !.name = n]
  /\ alert' = ""
  /\ ret' = <<>>
  /\ UNCHANGED <<hookVars, stored, inflight, clock, zone, camera, resetInForce>>

\* DateTimePicker onChange: setExpiration(date.toISOString().split('T')[0])
onChange_date(date) ==
  /\ fn' = "setExpiration"
  /\ args' = [pre |-> form]
  /\ form' = [form EXCEPT !.expiration = ISODate(ParseDate(date))]
  /\ alert' = ""
  /\ ret' = <<>>
  /\ UNCHANGED <<hookVars, stored, inflight, clock, zone, camera, resetInForce>>

handleFrozenToggle ==
  /\ InWindow(form.expiration)
  /\ fn' = "handleFrozenToggle"
  /\ args' = [pre |-> form]
  /\ form' = FrozenToggled(zone, form)
  /\ alert' = ""
  /\ ret' = <<>>
  /\ UNCHANGED <<hookVars, stored, inflight, clock, zone, camera, resetInForce>>

handleOpenedToggle ==
  /\ InWindow(form.expiration)
  /\ fn' = "handleOpenedToggle"
  /\ args' = [pre |-> form]
  /\ form' = OpenedToggled(zone, form)
  /\ alert' = ""
  /\ ret' = <<>>
  /\ UNCHANGED <<hookVars, stored, inflight, clock, zone, camera, resetInForce>>

\* handleSaveIngredient with onSaveIngredient a callback that records its argument
handleSaveIngredient ==
  /\ fn' = "handleSaveIngredient"
  /\ args' = [pre |-> form]
  /\ IF form.name = ""
     THEN /\ alert' = NameRequired
          /\ ret' = <<>>
          /\ UNCHANGED form
     ELSE /\ ret' = NewIngredient(form, editingIngredient, clock)
          /\ form' = EmptyForm
          /\ alert' = ""
  /\ UNCHANGED <<hookVars, stored, inflight, clock, zone, camera, resetInForce>>

NextForm ==
  \/ \E n \in FormNames : onChangeText_name(n)
  \/ \E date \in PickDates : onChange_date(date)
  \/ handleFrozenToggle
  \/ handleOpenedToggle
  \/ handleSaveIngredient

SpecForm == InitForm /\ [][NextForm]_vars

----------------------------------------------------------------------------
(* Calls of needsRipenessCheck and of the views of utils/ingredientUtils.ts: *)
(* the collection passed is `ingredients`, the instant of new Date() is     *)
(* args.now.                                                                *)

DEFAULT_EXPIRING_DAYS_THRESHOLD == 7
DEFAULT_RIPENESS_CHECK_DAYS == 3

\* Instants of ripeness updates: hours of the StampDays + 1 days up to 2024-11-01 (UTC)
StampDays == 6
Stamps ==
  {<<(DaysFromCivil(2024, 11, 1) - d) * HoursPerDay + h>> : d \in 0..StampDays, h \in NowHours}

ViewLen == 2
ViewStamps ==
  {<<(DaysFromCivil(2024, 10, 30) + d) * HoursPerDay + 12>> : d \in {-3, 0, 2}}
RipenessItems ==
  {[Ingredient(1, "milk") EXCEPT !.lastRipenessUpdate = u] : u \in ViewStamps \cup {NoStamp}}

\* new Date() when the expiring-soon view is computed: noon (UTC) of the first
\* and of the last day of Nows
ViewNows == {(DaysFromCivil(2024, 10, 30) + d) * HoursPerDay + 12 : d \in {0, NowDays}}

\* Expirations before, within and beyond a week of the instants of Nows
ViewDates == {<<2024, 10, 29>>, <<2024, 11, 2>>, <<2024, 11, 9>>}
ViewThresholds == {0, DEFAULT_EXPIRING_DAYS_THRESHOLD}
ExpiringItems ==
  {[Ingredient(1, "milk") EXCEPT !.ripeness = r, !.isOpened = o, !.isFrozen = z,
                                 !.expiration = e] :
     r \in {"", RipeMature}, o \in BOOLEAN, z \in BOOLEAN, e \in ViewDates \cup {NoDate}}

MissingItems ==
  {[Ingredient(1, "milk") EXCEPT !.category = c, !.location = l, !.confection = k,
                                 !.expiration = e] :
     c \in {"", "Dairy"}, l \in {"", "Fridge"}, k \in {"", "Fresh"},
     e \in {NoDate, <<2024, 11, 2>>}}

SeqsUpTo(S, n) == UNION {[1..k -> S] : k \in 0..n}

ViewCalls ==
  [f : {"needsRipenessCheck"}, now : Nows, lastUpdate : Stamps \cup {NoStamp},
   daysThreshold : Thresholds]
  \cup [f : {"getIngredientsNeedingRipenessCheck"}, now : Nows,
        coll : SeqsUpTo(RipenessItems, ViewLen), daysThreshold : {DEFAULT_RIPENESS_CHECK_DAYS}]
  \cup [f : {"getExpiringSoonIngredients"}, now : ViewNows,
        coll : SeqsUpTo(ExpiringItems, ViewLen), daysThreshold : ViewThresholds]
  \cup [f : {"getIngredientsWithMissingData"}, coll : SeqsUpTo(MissingItems, ViewLen)]
  \cup [f : {"getMostRecentIngredients"}, coll : Collections]

InitView ==
  /\ zone \in Zones
  /\ fn = "none"
  /\ args \in ViewCalls
  /\ ingredients = IF args.f = "needsRipenessCheck" THEN <<>> ELSE args.coll
  /\ ret = <<>>
  /\ editingIngredient = Null
  /\ isLoading = FALSE
  /\ stored = Absent
  /\ inflight = <<>>
  /\ clock = 1
  /\ alert = ""
  /\ form = EmptyForm
  /\ resetInForce = FALSE
  /\ camera = CameraIdle

call_needsRipenessCheck ==
  /\ fn = "none" /\ args.f = "needsRipenessCheck"
  /\ fn' = args.f
  /\ ret' = needsRipenessCheck(zone, args.now, args.lastUpdate, args.daysThreshold)
  /\ UNCHANGED <<appVars, zone, form, args>>

call_getIngredientsNeedingRipenessCheck ==
  /\ fn = "none" /\ args.f = "getIngredientsNeedingRipenessCheck"
  /\ fn' = args.f
  /\ ret' = getIngredientsNeedingRipenessCheck(zone, args.now, ingredients, args.daysThreshold)
  /\ UNCHANGED <<appVars, zone, form, args>>

call_getExpiringSoonIngredients ==
  /\ fn = "none" /\ args.f = "getExpiringSoonIngredients"
  /\ fn' = args.f
  /\ ret' = getExpiringSoonIngredients(zone, args.now, ingredients, args.daysThreshold)
  /\ UNCHANGED <<appVars, zone, form, args>>

call_getIngredientsWithMissingData ==
  /\ fn = "none" /\ args.f = "getIngredientsWithMissingData"
  /\ fn' = args.f
  /\ ret' = getIngredientsWithMissingData(ingredients)
  /\ UNCHANGED <<appVars, zone, form, args>>

call_getMostRecentIngredients ==
  /\ fn = "none" /\ args.f = "getMostRecentIngredients"
  /\ fn' = args.f
  /\ ret' = getMostRecentIngredients(ingredients)
  /\ UNCHANGED <<appVars, zone, form, args>>

NextView ==
  \/ call_needsRipenessCheck
  \/ call_getIngredientsNeedingRipenessCheck
  \/ call_getExpiringSoonIngredients
  \/ call_getIngredientsWithMissingData
  \/ call_getMostRecentIngredients

SpecView == InitView /\ [][NextView]_vars

----------------------------------------------------------------------------
(* App.tsx: the hook wired to the form, the query screen and the camera     *)
(* screen, from an empty slot.  Between two steps the clock may stand still *)
(* (Date.now() counts milliseconds) or advance.                             *)
(*                                                                          *)
(* AddIngredientScreen stays mounted and is rendered again whenever App is; *)
(* App passes it a new cancelEditing (onBlur) on every render, so the       *)
(* cleanup of its effect on [onBlur] runs cancelEditing after every render  *)
(* of App: the editing record set by startEditing is cleared again in the   *)
(* same step, after the form has been loaded from it.                       *)

MaxClock == 2
AppMaxInflight == 1

\* Room in the app model's bound on operations in flight for one more
AppRoom == Len(inflight) < AppMaxInflight

\* product.product_name of the products found: not given
ProductNames == {""}

\* The responses of the OpenFoodFacts fetch
ScanResults ==
  [kind : {"found"}, product_name : ProductNames] \cup {[kind |-> "notFound"], [kind |-> "failed"]}

ProductNotFound_silent == ""

ProductNotFound == "Product not found in OpenFoodFacts database."
FetchFailed == "Failed to fetch data"

\* product.product_name || 'Unknown'
ScanName(product_name) == IF product_name = "" THEN "Unknown" ELSE product_name

\* scanBarcode's newIngredient at the instant now (brands, categories and
\* packaging of the product taken as not given)
ScannedIngredient(product_name, now) ==
  [id |-> now, name |-> ScanName(product_name), brand |-> "Unknown", ripeness |-> "",
   category |-> "Other", location |-> "Pantry", confection |-> "Other",
   expiration |-> NoDate, lastRipenessUpdate |-> NoStamp, isFrozen |-> FALSE,
   isOpened |-> FALSE]

\* The form after the effect on [editingIngredient] has loaded the record
LoadForm(e) ==
  [name |-> e.name, brand |-> e.brand, ripeness |-> e.ripeness, category |-> e.category,
   location |-> e.location, confection |-> e.confection, expiration |-> e.expiration,
   lastRipenessUpdate |-> e.lastRipenessUpdate, isFrozen |-> e.isFrozen,
   isOpened |-> e.isOpened]

InitApp ==
  /\ AppIdle
  /\ zone = UTC
  /\ NoCall

\* Time passes
Tick ==
  /\ clock < MaxClock
  /\ clock' = clock + 1
  /\ UNCHANGED <<fn, args>>
  /\ ret' = <<>>
  /\ alert' = ""
  /\ UNCHANGED <<hookVars, stored, inflight, zone, form, resetInForce, camera>>

\* The form's handleSaveIngredient with onSaveIngredient = the hook's
\* saveIngredient, then resetForm
App_handleSaveIngredient ==
  /\ UNCHANGED <<fn, args>>
  /\ ret' = <<>>
  /\ IF NameMissing(form)
     THEN /\ alert' = NameRequired
          /\ UNCHANGED <<hookVars, inflight, form, resetInForce>>
     ELSE LET newIngredient == NewIngredient(form, editingIngredient, clock)
          IN  IF NameMissing(newIngredient)
              THEN /\ alert' = NameRequired
                   /\ form' = EmptyForm
                   /\ UNCHANGED <<hookVars, inflight, resetInForce>>
              ELSE /\ isLoading \/ AppRoom
                   /\ editingIngredient # Null \/ Len(ingredients) < HookMaxLen
                   /\ ingredients' = setIngredients_save(ingredients, editingIngredient,
                                                         newIngredient)
                   /\ editingIngredient' = Null
                   /\ inflight' = SaveEffect(inflight, ingredients', isLoading)
                   /\ form' = EmptyForm
                   /\ alert' = ""
                   /\ resetInForce' = (resetInForce /\ editingIngredient # Null)
                   /\ UNCHANGED isLoading
  /\ UNCHANGED <<stored, clock, zone, camera>>

\* The name field's onChangeText={setName}
App_onChangeText_name(n) ==
  /\ UNCHANGED <<fn, args>>
  /\ ret' = <<>>
  /\ form' = [form EXCEPT !.name = n]
  /\ alert' = ""
  /\ UNCHANGED <<hookVars, stored, inflight, clock, zone, camera, resetInForce>>

\* QueryScreen's Edit: startEditing(ingredient) and navigation to the form;
\* App renders, the form loads the record, and the cleanup on [onBlur] runs
\* cancelEditing
App_navigateToEdit(ingredient) ==
  /\ UNCHANGED <<fn, args>>
  /\ ret' = <<>>
  /\ form' = LoadForm(ingredient)
  /\ editingIngredient' = Null
  /\ alert' = ""
  /\ UNCHANGED <<ingredients, isLoading, stored, inflight, clock, zone, resetInForce, camera>>

\* CameraView's onBarcodeScanned with isScanning false: scanBarcode sets
\* isScanning and issues the fetch
CameraView_onBarcodeScanned ==
  /\ ~camera.isScanning
  /\ UNCHANGED <<fn, args>>
  /\ ret' = <<>>
  /\ camera' = [camera EXCEPT !.isScanning = TRUE, !.shown = TRUE, !.fetching = @ + 1]
  /\ alert' = ""
  /\ UNCHANGED <<hookVars, stored, inflight, clock, zone, form, resetInForce>>

\* The fetch completes and scanBarcode continues: a product found is handed
\* to onAddIngredient = the hook's saveIngredient; finally the timeout that
\* clears isScanning is set
fetch_completes(result) ==
  /\ camera.fetching > 0
  /\ UNCHANGED <<fn, args>>
  /\ ret' = <<>>
  /\ camera' = [camera EXCEPT !.fetching = @ - 1, !.timers = @ + 1]
  /\ IF result.kind = "found"
     THEN LET newIngredient == ScannedIngredient(result.product_name, clock)
          IN  IF NameMissing(newIngredient)
              THEN /\ alert' = NameRequired
                   /\ UNCHANGED <<hookVars, inflight, resetInForce>>
              ELSE /\ isLoading \/ AppRoom
                   /\ editingIngredient # Null \/ Len(ingredients) < HookMaxLen
                   /\ ingredients' = setIngredients_save(ingredients, editingIngredient,
                                                         newIngredient)
                   /\ editingIngredient' = Null
                   /\ inflight' = SaveEffect(inflight, ingredients', isLoading)
                   /\ alert' = ""
                   /\ resetInForce' = (resetInForce /\ editingIngredient # Null)
                   /\ UNCHANGED isLoading
     ELSE /\ alert' = IF result.kind = "notFound" THEN ProductNotFound ELSE FetchFailed
          /\ UNCHANGED <<hookVars, inflight, resetInForce>>
  /\ UNCHANGED <<stored, clock, zone, form>>

\* The timeout set by scanBarcode's finally fires: setIsScanning(false)
scanTimeout_fires ==
  /\ camera.timers > 0
  /\ UNCHANGED <<fn, args>>
  /\ ret' = <<>>
  /\ camera' = [camera EXCEPT !.isScanning = FALSE, !.shown = FALSE, !.timers = @ - 1]
  /\ alert' = ""
  /\ UNCHANGED <<hookVars, stored, inflight, clock, zone, form, resetInForce>>

\* The app is closed and started again: everything but the slot and the
\* clock is constructed anew
App_restart ==
  /\ UNCHANGED <<fn, args>>
  /\ ret' = <<>>
  /\ ingredients' = <<>>
  /\ editingIngredient' = Null
  /\ isLoading' = TRUE
  /\ inflight' = <<GetOp>>
  /\ form' = EmptyForm
  /\ camera' = CameraIdle
  /\ alert' = ""
  /\ UNCHANGED <<stored, clock, zone, resetInForce>>

App_deleteIngredient(id) ==
  /\ UNCHANGED <<fn, args>>
  /\ isLoading \/ AppRoom
  /\ hook_deleteIngredient(id)

App_resetIngredients_cancel ==
  /\ UNCHANGED <<fn, args>>
  /\ hook_resetIngredients_cancel

App_resetIngredients_yes ==
  /\ UNCHANGED <<fn, args>>
  /\ AppRoom
  /\ hook_resetIngredients_yes

App_fetchIngredients(ok) ==
  /\ UNCHANGED <<fn, args>>
  /\ hook_fetchIngredients(ok)

App_saveIngredients(ok) ==
  /\ UNCHANGED <<fn, args>>
  /\ hook_saveIngredients(ok)

App_clearAllIngredients(ok) ==
  /\ UNCHANGED <<fn, args>>
  /\ hook_clearAllIngredients(ok)

NextApp ==
  \/ Tick
  \/ \E n \in FormNames : App_onChangeText_name(n)
  \/ App_handleSaveIngredient
  \/ \E k \in 1..Len(ingredients) : App_navigateToEdit(ingredients[k])
  \/ \E k \in 1..Len(ingredients) : App_deleteIngredient(ingredients[k].id)
  \/ App_resetIngredients_cancel
  \/ App_resetIngredients_yes
  \/ CameraView_onBarcodeScanned
  \/ \E result \in ScanResults : fetch_completes(result)
  \/ scanTimeout_fires
  \/ \E ok \in BOOLEAN : App_fetchIngredients(ok)
  \/ \E ok \in BOOLEAN : App_saveIngredients(ok)
  \/ \E ok \in BOOLEAN : App_clearAllIngredients(ok)
  \/ App_restart

SpecApp == InitApp /\ [][NextApp]_vars

----------------------------------------------------------------------------
(* The Camera Scanning tab and the Ingredients tab of App.tsx: useCamera     *)
(* with onAddIngredient = the hook's saveIngredient, QueryScreen's Edit and  *)
(* Delete, the storage, time and restarts.  Here a render is a step of its   *)
(* own where a handler of the camera screen can run before it:               *)
(*  - isScanning is state: scanBarcode and onBarcodeScanned read the value   *)
(*    of the render they were created in (camera.shown), and                 *)
(*    setIsScanning(true) reaches them only with the next render of the      *)
(*    screen; a barcode event handled before that render reads false;        *)
(*  - scanBarcode calls the onAddIngredient of the render it was created in, *)
(*    whose saveIngredient reads that render's editingIngredient; startEditing*)
(*    sets it, and the cleanup on [onBlur] clears it in the effects that     *)
(*    follow the render.                                                     *)

ScanMaxLen == 2
ScanMaxFetch == 2

\* Edit: startEditing(ingredient) and navigation; App has rendered with the
\* editing record set, the effects of that render are pending
Scan_navigateToEdit(ingredient) ==
  /\ editingIngredient = Null
  /\ editingIngredient' = <<ingredient>>
  /\ alert' = ""
  /\ ret' = <<>>
  /\ UNCHANGED <<fn, args, ingredients, isLoading, stored, inflight, clock, zone, form,
                 resetInForce, camera>>

\* The effects of that render: the form loads the record and the cleanup on
\* [onBlur] runs cancelEditing
AddIngredientScreen_effects ==
  /\ editingIngredient # Null
  /\ form' = LoadForm(editingIngredient[1])
  /\ editingIngredient' = Null
  /\ alert' = ""
  /\ ret' = <<>>
  /\ UNCHANGED <<fn, args, ingredients, isLoading, stored, inflight, clock, zone,
                 resetInForce, camera>>

\* onBarcodeScanned with the handlers' isScanning false: scanBarcode passes
\* its own check, calls setIsScanning(true) and issues the fetch
Scan_onBarcodeScanned ==
  /\ ~camera.shown
  /\ camera.fetching + camera.timers < ScanMaxFetch
  /\ camera' = [camera EXCEPT !.isScanning = TRUE,
                              !.fetching = @ + 1,
                              !.stale = IF editingIngredient # Null THEN @ + 1 ELSE @,
                              !.last = "accepted"]
  /\ alert' = ""
  /\ ret' = <<>>
  /\ UNCHANGED <<fn, args, hookVars, stored, inflight, clock, zone, form, resetInForce>>

\* onBarcodeScanned with the handlers' isScanning true: nothing is called
Scan_onBarcodeScanned_ignored ==
  /\ camera.shown
  /\ camera' = [camera EXCEPT !.last = "ignored"]
  /\ alert' = ""
  /\ ret' = Null
  /\ UNCHANGED <<fn, args, hookVars, stored, inflight, clock, zone, form, resetInForce>>

\* CameraScreen renders with the current isScanning
CameraScreen_renders ==
  /\ camera.shown # camera.isScanning
  /\ camera' = [camera EXCEPT !.shown = camera.isScanning]
  /\ alert' = ""
  /\ ret' = <<>>
  /\ UNCHANGED <<fn, args, hookVars, stored, inflight, clock, zone, form, resetInForce>>

FinallySetsTimeout_onlyWhenFound(kind) == kind = "found"

\* scanBarcode's finally sets the timeout whatever the outcome was
FinallySetsTimeout(kind) == TRUE

\* The fetch of a lookup completes and scanBarcode continues.  stale: the
\* lookup's saveIngredient is of a render with an editing record set, and
\* takes the update branch.  ret is what scanBarcode returns.  The pending
\* effects of an earlier render run before the render that saveIngredient causes.
Scan_fetch_completes(result, stale) ==
  /\ IF stale THEN camera.stale > 0 ELSE camera.fetching > camera.stale
  /\ camera' = [camera EXCEPT !.fetching = @ - 1,
                              !.stale = IF stale THEN @ - 1 ELSE @,
                              !.timers = IF FinallySetsTimeout(result.kind) THEN @ + 1 ELSE @,
                              !.last = result.kind]
  /\ IF result.kind = "found"
     THEN LET newIngredient == ScannedIngredient(result.product_name, clock)
          IN  /\ ret' = <<newIngredient>>
              /\ IF NameMissing(newIngredient)
                 THEN /\ alert' = NameRequired
                      /\ UNCHANGED <<hookVars, inflight, form>>
                 ELSE /\ isLoading \/ AppRoom
                      /\ stale \/ Len(ingredients) < ScanMaxLen
                      /\ ingredients' = IF stale
                                        THEN setIngredients_update(ingredients, newIngredient)
                                        ELSE setIngredients_append(ingredients, newIngredient)
                      /\ editingIngredient' = Null
                      /\ form' = IF editingIngredient # Null
                                 THEN LoadForm(editingIngredient[1])
                                 ELSE form
                      /\ inflight' = SaveEffect(inflight, ingredients', isLoading)
                      /\ alert' = ""
                      /\ UNCHANGED isLoading
     ELSE /\ alert' = IF result.kind = "notFound" THEN ProductNotFound ELSE FetchFailed
          /\ ret' = Null
          /\ UNCHANGED <<hookVars, inflight, form>>
  /\ UNCHANGED <<fn, args, stored, clock, zone, resetInForce>>

\* A timeout set by scanBarcode's finally fires: setIsScanning(false)
Scan_scanTimeout_fires ==
  /\ camera.timers > 0
  /\ camera' = [camera EXCEPT !.isScanning = FALSE, !.timers = @ - 1]
  /\ alert' = ""
  /\ ret' = <<>>
  /\ UNCHANGED <<fn, args, hookVars, stored, inflight, clock, zone, form, resetInForce>>

\* The "Reset Scanner" button, enabled while the render's isScanning is false
CameraScreen_resetScanning ==
  /\ ~camera.shown
  /\ camera' = [camera EXCEPT !.isScanning = FALSE]
  /\ alert' = ""
  /\ ret' = <<>>
  /\ UNCHANGED <<fn, args, hookVars, stored, inflight, clock, zone, form, resetInForce>>

\* setItem completes; the save effect drops what saveIngredients returns
Scan_saveIngredients(ok) ==
  /\ inflight # <<>> /\ Head(inflight).op = "setItem"
  /\ stored' = Saved(ok, Head(inflight).data)
  /\ inflight' = Tail(inflight)
  /\ alert' = ""
  /\ ret' = <<>>
  /\ UNCHANGED <<fn, args, hookVars, clock, zone, camera, resetInForce, form>>

\* The handlers of the hook and of the storage run once the effects of the
\* last render have run
Settled == editingIngredient = Null

InitScan ==
  /\ AppIdle
  /\ zone = UTC
  /\ NoCall

NextScan ==
  \/ Settled /\ Tick
  \/ \E k \in 1..Len(ingredients) : Scan_navigateToEdit(ingredients[k])
  \/ AddIngredientScreen_effects
  \/ \E k \in 1..Len(ingredients) : Settled /\ App_deleteIngredient(ingredients[k].id)
  \/ Scan_onBarcodeScanned
  \/ Scan_onBarcodeScanned_ignored
  \/ CameraScreen_renders
  \/ \E result \in ScanResults, stale \in BOOLEAN : Scan_fetch_completes(result, stale)
  \/ Scan_scanTimeout_fires
  \/ CameraScreen_resetScanning
  \/ \E ok \in BOOLEAN : Settled /\ App_fetchIngredients(ok)
  \/ \E ok \in BOOLEAN : Settled /\ Scan_saveIngredients(ok)
  \/ Settled /\ App_restart

SpecScan == InitScan /\ [][NextScan]_vars

\* The same with what the runtime guarantees: a fetch settles, a timeout
\* fires, a pending render and pending effects run
SpecScanLive ==
  /\ SpecScan
  /\ WF_camera(\E result \in ScanResults, stale \in BOOLEAN : Scan_fetch_completes(result, stale))
  /\ WF_camera(Scan_scanTimeout_fires)
  /\ WF_camera(CameraScreen_renders)
  /\ WF_editingIngredient(AddIngredientScreen_effects)

----------------------------------------------------------------------------
(* AddIngredientScreen with its Ripeness dropdown, given its editing record  *)
(* and its onSaveIngredient by the hook (startEditing, saveIngredient),      *)
(* while time passes.  The initial load is pending throughout, so nothing is *)
(* written.  ret is <<the ingredient handed to onSaveIngredient>> by the     *)
(* last step, <<>> if it handed over none.                                  *)

RipeMaxLen == 2

\* The options of the dropdown that are tried
RipenessChoices == {"Green", RipeMature}

\* Dropdown onValueChange: setRipeness(value); setLastRipenessUpdate(new Date().toISOString())
onValueChange_ripeness(value) ==
  /\ form' = [form EXCEPT !.ripeness = value, !.lastRipenessUpdate = <<clock>>]
  /\ alert' = ""
  /\ ret' = <<>>
  /\ UNCHANGED <<fn, args, hookVars, stored, inflight, clock, zone, camera, resetInForce>>

\* startEditing(ingredient) by the parent; the effect on [editingIngredient]
\* loads the record into the form
Ripeness_startEditing(ingredient) ==
  /\ editingIngredient' = <<ingredient>>
  /\ form' = LoadForm(ingredient)
  /\ alert' = ""
  /\ ret' = <<>>
  /\ UNCHANGED <<fn, args, ingredients, isLoading, stored, inflight, clock, zone, camera,
                 resetInForce>>

\* handleSaveIngredient, with onSaveIngredient = the hook's saveIngredient
Ripeness_handleSaveIngredient ==
  /\ IF NameMissing(form)
     THEN /\ alert' = NameRequired
          /\ ret' = <<>>
          /\ UNCHANGED <<hookVars, form>>
     ELSE LET newIngredient == NewIngredient(form, editingIngredient, clock)
          IN  /\ editingIngredient # Null \/ Len(ingredients) < RipeMaxLen
              /\ ret' = <<newIngredient>>
              /\ ingredients' = setIngredients_save(ingredients, editingIngredient,
                                                    newIngredient)
              /\ editingIngredient' = Null
              /\ form' = EmptyForm
              /\ alert' = ""
              /\ UNCHANGED isLoading
  /\ UNCHANGED <<fn, args, stored, inflight, clock, zone, camera, resetInForce>>

\* The collection is empty or holds a record made by a barcode scan
InitRipeness ==
  /\ ingredients \in {<<>>, <<ScannedIngredient("", 1)>>}
  /\ editingIngredient = Null
  /\ isLoading = TRUE
  /\ stored = Absent
  /\ inflight = <<GetOp>>
  /\ clock = 1
  /\ alert = ""
  /\ form = EmptyForm
  /\ resetInForce = FALSE
  /\ camera = CameraIdle
  /\ zone = UTC
  /\ NoCall

NextRipeness ==
  \/ Tick
  \/ \E n \in FormNames : App_onChangeText_name(n)
  \/ \E value \in RipenessChoices : onValueChange_ripeness(value)
  \/ \E k \in 1..Len(ingredients) : Ripeness_startEditing(ingredients[k])
  \/ Ripeness_handleSaveIngredient

SpecRipeness == InitRipeness /\ [][NextRipeness]_vars

----------------------------------------------------------------------------
(* Properties of the mutation functions (SpecMut)                          *)

\* C1: for every collection C with pairwise distinct ids and every ingredient i
\* whose id does not occur in C, deleteIngredient(addIngredient(C, i), i.id)
\* is C itself: the same records in the same order.
C1_DeleteAfterAddIsIdentity ==
  (fn = "deleteAfterAdd" /\ DistinctIds(args.coll) /\ args.item.id \notin Ids(args.coll))
    => ret = args.coll

\* C1 witness: the composition was applied to a collection of two or more
\* records with distinct ids, none of them the added id.
C1_Witness ==
  /\ fn = "deleteAfterAdd"
  /\ Len(args.coll) >= 2
  /\ DistinctIds(args.coll)
  /\ args.item.id \notin Ids(args.coll)
  /\ ret = args.coll

\* C2: for every collection C with pairwise distinct ids and every record u,
\* updateIngredient(C, u) has the length of C, holds u where C held the record
\* with u's id and C's record everywhere else; when no record of C has u's id
\* the result is C (nothing is inserted).
C2_UpdateReplacesById ==
  (fn = "updateIngredient" /\ DistinctIds(args.coll)) =>
    IF args.item.id \in Ids(args.coll)
    THEN /\ Len(ret) = Len(args.coll)
         /\ \A k \in 1..Len(args.coll) :
              ret[k] = IF args.coll[k].id = args.item.id THEN args.item ELSE args.coll[k]
    ELSE ret = args.coll

\* C2 witness: an update that changed the middle or last record of a
\* collection of distinct ids.
C2_Witness ==
  /\ fn = "updateIngredient"
  /\ DistinctIds(args.coll)
  /\ \E k \in 2..Len(args.coll) :
       /\ args.coll[k].id = args.item.id
       /\ args.coll[k] # args.item
       /\ ret[k] = args.item

----------------------------------------------------------------------------
(* Properties of the date functions (SpecDate)                             *)

\* The calendar day, as a day number, that the user's clock shows at instant t
LocalDay(z, t) == LocalTime(z, t) \div HoursPerDay

\* Day number of an ISO date
DayOf(date) == DaysFromCivil(date[1], date[2], date[3])

\* C6: getDaysUntilExpiration returns the "never" value when no expiration is
\* set, and otherwise the number of calendar days from today to the expiration
\* date (0 today, d for d days ahead, -d for d days past), whatever the time of
\* day.
C6_DaysUntilIsCalendarDays ==
  fn = "getDaysUntilExpiration" =>
    ret = IF args.date = NoDate THEN Infinity
          ELSE DayOf(args.date) - LocalDay(zone, args.now)

\* C7: isExpiringSoon(date, t) is true exactly when a date is set and it lies
\* 0 to t calendar days ahead of today.
C7_ExpiringSoonIsForwardWindow ==
  fn = "isExpiringSoon" =>
    ret = /\ args.date # NoDate
          /\ 0 <= DayOf(args.date) - LocalDay(zone, args.now)
          /\ DayOf(args.date) - LocalDay(zone, args.now) <= args.daysThreshold

\* The date with the same day of the month, k months later (year carried)
MonthsLater(date, k) ==
  LET m0 == (date[2] - 1) + k
  IN  <<date[1] + m0 \div 12, (m0 % 12) + 1, date[3]>>

\* C8: adjustExpirationForFrozen(date, true) is the date 6 calendar months
\* later with the same day of the month, for every day of the month;
\* adjustExpirationForFrozen(date, false) is the date; no date stays no date.
C8_FrozenAddsSixMonths ==
  fn = "adjustExpirationForFrozen" =>
    ret = IF args.date = NoDate THEN NoDate
          ELSE IF args.flag THEN MonthsLater(args.date, 6)
          ELSE args.date

\* C9: adjustExpirationForOpened(date, true) is the date 7 calendar days
\* earlier; adjustExpirationForOpened(date, false) is the date; no date stays
\* no date.
C9_OpenedSubtractsSevenDays ==
  fn = "adjustExpirationForOpened" =>
    ret = IF args.date = NoDate THEN NoDate
          ELSE IF args.flag THEN CivilFromDays(DayOf(args.date) - 7)
          ELSE args.date

----------------------------------------------------------------------------
(* Properties of the form's toggles (SpecForm)                             *)

\* C10: each off->on toggle of Frozen moves a set expiration to the date 6
\* calendar months later, each off->on toggle of Opened to the date 7 days
\* earlier; each on->off toggle leaves the expiration as it is; with no
\* expiration set the toggle changes the flag only.  A toggle changes no
\* other field of the form.
C10_TogglesShiftOneWay ==
  /\ fn = "handleFrozenToggle" =>
       /\ form = [args.pre EXCEPT !.isFrozen = form.isFrozen, !.expiration = form.expiration]
       /\ form.isFrozen = ~args.pre.isFrozen
       /\ form.expiration = IF args.pre.expiration # NoDate /\ ~args.pre.isFrozen
                            THEN MonthsLater(args.pre.expiration, 6)
                            ELSE args.pre.expiration
  /\ fn = "handleOpenedToggle" =>
       /\ form = [args.pre EXCEPT !.isOpened = form.isOpened, !.expiration = form.expiration]
       /\ form.isOpened = ~args.pre.isOpened
       /\ form.expiration = IF args.pre.expiration # NoDate /\ ~args.pre.isOpened
                            THEN CivilFromDays(DayOf(args.pre.expiration) - 7)
                            ELSE args.pre.expiration

----------------------------------------------------------------------------
(* Properties of the hook (SpecHook)                                       *)

\* The number of records among the first k of C that have the id
Matches(C, id, k) == Cardinality({j \in 1..k : C[j].id = id})

\* C3: deleteIngredient(C, id) is C without the records that have the id, the
\* others in their original order, and C itself when no record has the id; the
\* hook's deleteIngredient leaves exactly that collection in memory and
\* changes neither the editing record, the loading flag nor the stored
\* collection.
C3_DeleteRemovesById ==
  fn = "deleteIngredient" =>
    LET C == args.pre.ingredients
        D == deleteIngredient(C, args.id)
    IN  /\ Len(D) = Len(C) - Matches(C, args.id, Len(C))
        /\ \A k \in 1..Len(C) :
             C[k].id # args.id => D[k - Matches(C, args.id, k)] = C[k]
        /\ (args.id \notin Ids(C) => D = C)
        /\ ingredients = D
        /\ editingIngredient = args.pre.editingIngredient
        /\ isLoading = args.pre.isLoading
        /\ stored = args.pre.stored

\* C3 witness: the hook deleted the first of two records while the second
\* was being edited.
C3_Witness ==
  /\ fn = "deleteIngredient"
  /\ Len(args.pre.ingredients) = 2
  /\ args.pre.ingredients[1].id = args.id
  /\ args.pre.ingredients[2].id # args.id
  /\ args.pre.editingIngredient = <<args.pre.ingredients[2]>>
  /\ ingredients = <<args.pre.ingredients[2]>>
  /\ editingIngredient = args.pre.editingIngredient

\* C4: saveIngredient of an ingredient with a non-empty name, when an editing
\* record is set, replaces the records that have the ingredient's id and
\* keeps the length of the collection and the id at every position; when no
\* editing record is set it appends the ingredient at the end.  Either way no
\* editing record is set afterwards.
C4_SaveRoutesUpdateOrAppend ==
  (fn = "saveIngredient" /\ args.ingredient.name # "") =>
    LET C == args.pre.ingredients
        i == args.ingredient
    IN  /\ editingIngredient = Null
        /\ IF args.pre.editingIngredient # Null
           THEN /\ Len(ingredients) = Len(C)
                /\ \A k \in 1..Len(C) :
                     /\ ingredients[k].id = C[k].id
                     /\ ingredients[k] = IF C[k].id = i.id THEN i ELSE C[k]
           ELSE /\ Len(ingredients) = Len(C) + 1
                /\ ingredients[Len(C) + 1] = i
                /\ \A k \in 1..Len(C) : ingredients[k] = C[k]

\* C4 witness: with the second of two records being edited, saveIngredient
\* replaced it by a record of the same id and another name.
C4_Witness ==
  /\ fn = "saveIngredient"
  /\ Len(args.pre.ingredients) = 2
  /\ args.pre.editingIngredient = <<args.pre.ingredients[2]>>
  /\ args.ingredient.id = args.pre.ingredients[2].id
  /\ args.ingredient.id # args.pre.ingredients[1].id
  /\ args.ingredient.name \notin {"", args.pre.ingredients[2].name}
  /\ ingredients = <<args.pre.ingredients[1], args.ingredient>>
  /\ editingIngredient = Null

\* C5: saveIngredient of an ingredient with an empty name raises the
\* name-required alert and leaves the in-memory collection, the stored
\* collection and the editing record as they were, and issues no write.
C5_EmptyNameChangesNothing ==
  (fn = "saveIngredient" /\ args.ingredient.name = "") =>
    /\ alert = NameRequired
    /\ ingredients = args.pre.ingredients
    /\ stored = args.pre.stored
    /\ editingIngredient = args.pre.editingIngredient
    /\ isLoading = args.pre.isLoading
    /\ inflight = args.pre.inflight

\* C5 witness: an ingredient with an empty name was submitted after loading,
\* with a record in the collection and an editing record set.
C5_Witness ==
  /\ fn = "saveIngredient"
  /\ args.ingredient.name = ""
  /\ ~args.pre.isLoading
  /\ args.pre.ingredients # <<>>
  /\ args.pre.editingIngredient # Null
  /\ alert = NameRequired
  /\ ingredients = args.pre.ingredients

----------------------------------------------------------------------------
(* Properties of needsRipenessCheck and of the views (SpecView)            *)

\* The calendar days from the local day of the update to the local day of now
\* exceed the threshold
DueByCalendar(z, now, lastUpdate, daysThreshold) ==
  /\ lastUpdate # NoStamp
  /\ LocalDay(z, now) - LocalDay(z, lastUpdate[1]) > daysThreshold

\* The indices of C, in order, whose record satisfies keep, as a sequence of records
RECURSIVE Kept(_, _)
Kept(C, keep) ==
  IF C = <<>> THEN <<>>
  ELSE IF Len(C) \in keep
       THEN Append(Kept(SubSeq(C, 1, Len(C) - 1), keep), C[Len(C)])
       ELSE Kept(SubSeq(C, 1, Len(C) - 1), keep)

\* C11: needsRipenessCheck(lastUpdate, t) is true exactly when lastUpdate is
\* set and more than t calendar days lie between its day and today (false at
\* exactly t days, false when absent); getIngredientsNeedingRipenessCheck
\* returns exactly the records satisfying it, in the collection's order.
C11_RipenessCheckAfterThresholdDays ==
  /\ fn = "needsRipenessCheck" =>
       ret = DueByCalendar(zone, args.now, args.lastUpdate, args.daysThreshold)
  /\ fn = "getIngredientsNeedingRipenessCheck" =>
       ret = Kept(args.coll,
                  {k \in 1..Len(args.coll) :
                     DueByCalendar(zone, args.now, args.coll[k].lastRipenessUpdate,
                                   args.daysThreshold)})

\* The record is ripe or opened
NeedsAttention(item) == item.ripeness = RipeMature \/ item.isOpened

\* The calendar days from the local day of now to the expiration date
DaysOut(z, now, date) == DayOf(date) - LocalDay(z, now)

\* C12: getExpiringSoonIngredients(C, t) returns, in C's order, exactly the
\* records that are ripe or opened or have an expiration with
\* isExpiringSoon(expiration, t); a record without expiration that is neither
\* ripe nor opened is not returned, nor is such a record 10 days out at
\* threshold 7; C is left as it was.
C12_ExpiringSoonViewMembership ==
  fn = "getExpiringSoonIngredients" =>
    LET C == args.coll
        t == args.daysThreshold
        In(k) == C[k] \in {ret[j] : j \in 1..Len(ret)}
    IN  /\ ret = Kept(C, {k \in 1..Len(C) :
                            \/ NeedsAttention(C[k])
                            \/ /\ C[k].expiration # NoDate
                               /\ isExpiringSoon(zone, args.now, C[k].expiration, t)})
        /\ \A k \in 1..Len(C) :
             (C[k].expiration = NoDate /\ ~NeedsAttention(C[k])) => ~In(k)
        /\ \A k \in 1..Len(C) :
             IF C[k].expiration # NoDate
             THEN (/\ ~NeedsAttention(C[k])
                   /\ t = 7
                   /\ DaysOut(zone, args.now, C[k].expiration) = 10) => ~In(k)
             ELSE TRUE
        /\ ingredients = C

\* C12 witness: of two records that are neither ripe nor opened, the view at
\* threshold 7 returned the second, 3 days out, and not the first, 10 days out.
C12_Witness ==
  /\ fn = "getExpiringSoonIngredients"
  /\ args.daysThreshold = 7
  /\ Len(args.coll) = 2
  /\ ~NeedsAttention(args.coll[1]) /\ ~NeedsAttention(args.coll[2])
  /\ args.coll[1].expiration # NoDate /\ args.coll[2].expiration # NoDate
  /\ IF args.coll[1].expiration # NoDate /\ args.coll[2].expiration # NoDate
     THEN /\ DaysOut(zone, args.now, args.coll[1].expiration) = 10
          /\ DaysOut(zone, args.now, args.coll[2].expiration) = 3
     ELSE FALSE
  /\ ret = <<args.coll[2]>>

\* The collection with the isFrozen flag of every record inverted
FrozenFlipped(C) == [k \in 1..Len(C) |-> [C[k] EXCEPT !.isFrozen = ~C[k].isFrozen]]

\* C13: for every collection and threshold, the expiring-soon view of the
\* collection with every isFrozen flag inverted is the view of the collection
\* with the flags of its records inverted: no record enters or leaves the view
\* because of isFrozen.
C13_FrozenDoesNotChangeMembership ==
  fn = "getExpiringSoonIngredients" =>
    getExpiringSoonIngredients(zone, args.now, FrozenFlipped(args.coll), args.daysThreshold)
      = FrozenFlipped(ret)

\* C13 witness: a frozen record 3 days out, neither ripe nor opened, is in the
\* view at threshold 7.
C13_Witness ==
  /\ fn = "getExpiringSoonIngredients"
  /\ args.daysThreshold = 7
  /\ Len(ret) = 1
  /\ ret[1].isFrozen /\ ~NeedsAttention(ret[1])
  /\ ret[1].expiration # NoDate
  /\ IF ret[1].expiration # NoDate
     THEN DaysOut(zone, args.now, ret[1].expiration) = 3
     ELSE FALSE

\* C14: getIngredientsWithMissingData(C) returns, in C's order, exactly the
\* records with an empty category, location, confection or expiration; a
\* record with all four set is not returned; C is left as it was.
C14_MissingDataViewMembership ==
  fn = "getIngredientsWithMissingData" =>
    LET C == args.coll
    IN  /\ ret = Kept(C, {k \in 1..Len(C) :
                            ~(/\ C[k].category # ""
                              /\ C[k].location # ""
                              /\ C[k].confection # ""
                              /\ C[k].expiration # NoDate)})
        /\ ingredients = C

\* C14 witness: of a complete record and one lacking only its expiration the
\* view returned the second.
C14_Witness ==
  /\ fn = "getIngredientsWithMissingData"
  /\ Len(args.coll) = 2
  /\ args.coll[1].category # "" /\ args.coll[1].location # ""
  /\ args.coll[1].confection # "" /\ args.coll[1].expiration # NoDate
  /\ args.coll[2] = [args.coll[1] EXCEPT !.expiration = NoDate]
  /\ ret = <<args.coll[2]>>

\* The number of occurrences of the record in the sequence
Count(C, item) == Cardinality({k \in 1..Len(C) : C[k] = item})

\* C15: getMostRecentIngredients(C) holds the records of C, each as often as
\* C does, with ids never increasing from one record to the next; C is left
\* as it was.
C15_MostRecentSortedDescending ==
  fn = "getMostRecentIngredients" =>
    /\ Len(ret) = Len(args.coll)
    /\ \A k \in 1..Len(args.coll) : Count(ret, args.coll[k]) = Count(args.coll, args.coll[k])
    /\ \A k \in 1..(Len(ret) - 1) : ret[k].id >= ret[k + 1].id
    /\ ingredients = args.coll

\* C15 witness: three records in ascending id order came back reversed.
C15_Witness ==
  /\ fn = "getMostRecentIngredients"
  /\ Len(args.coll) = 3
  /\ args.coll[1].id < args.coll[2].id /\ args.coll[2].id < args.coll[3].id
  /\ ret = <<args.coll[3], args.coll[2], args.coll[1]>>
  /\ ingredients = args.coll

----------------------------------------------------------------------------
(* Properties of storage (SpecHook)                                        *)

\* C16: loadIngredients returns the empty collection when the slot is absent,
\* when the read fails and when the stored text does not parse, and shows no
\* alert; otherwise it returns the collection whose text a successful save
\* left in the slot.  The hook takes what it returns as its collection.
C16_LoadReturnsSavedOrEmpty ==
  fn = "fetchIngredients" =>
    /\ IF args.ok /\ stored.kind = "json"
       THEN Json(ret) = stored
       ELSE ret = <<>>
    /\ alert = ""
    /\ ingredients = ret
    /\ stored = args.pre.stored

\* C16 witness: after a restart the load returned two records, which only a
\* save of this run can have left in the slot.
C16_Witness ==
  /\ fn = "fetchIngredients"
  /\ args.ok
  /\ Len(ret) = 2
  /\ ret[1] # ret[2]
  /\ Json(ret) = stored

\* C17: saveIngredients(C) returns true with the slot holding the text of C
\* (from which C is read back), or returns false with the slot as it was.
C17_SaveReplacesOrLeaves ==
  fn = "saveIngredients" =>
    LET C == Head(args.pre.inflight).data
    IN  /\ ret = args.ok
        /\ IF args.ok
           THEN /\ stored.kind = "json"
                /\ JSON_parse(stored.text) = C
           ELSE stored = args.pre.stored

\* C17 witness: a save of a collection other than the stored one failed and
\* the stored collection is as it was.
C17_Witness ==
  /\ fn = "saveIngredients"
  /\ ~args.ok
  /\ ret = FALSE
  /\ args.pre.stored.kind = "json"
  /\ Json(Head(args.pre.inflight).data) # args.pre.stored
  /\ args.pre.stored # Json(<<>>)
  /\ stored = args.pre.stored

\* C18: right after a successful clearAllIngredients a load returns the empty
\* collection; and from a successful reset of the hook until an ingredient is
\* added, the in-memory collection is empty and every load returns the empty
\* collection, restarts of the app included.
C18_ResetEmptiesUntilNextAdd ==
  /\ (fn = "clearAllIngredients" /\ args.ok) => Loaded(TRUE) = <<>>
  /\ resetInForce =>
       /\ ingredients = <<>>
       /\ fn = "fetchIngredients" => ret = <<>>

----------------------------------------------------------------------------
(* Invariants of the app (SpecApp)                                         *)

\* The persisted collection: what the slot's text deserializes to
Persisted == IF stored.kind = "json" THEN JSON_parse(stored.text) ELSE <<>>

\* C19: in every reachable state of the app, from an empty slot, no two
\* records of the in-memory collection share an id, and no two records of the
\* persisted collection share an id.
C19_IdsAreUnique ==
  /\ DistinctIds(ingredients)
  /\ DistinctIds(Persisted)

\* C20: in every reachable state of the app, from an empty slot, every record
\* of the persisted collection has a non-empty name, whether it came from the
\* form, from a barcode scan or from an edit.
C20_PersistedNamesNonEmpty ==
  \A k \in 1..Len(Persisted) : Persisted[k].name # ""

\* C20 witness: the persisted collection holds a record made by a barcode scan
\* of a product without a name and a record saved from the form after Edit
\* loaded a scanned record into it and the user changed the name.
C20_Witness ==
  /\ Len(Persisted) = 2
  /\ \E j, k \in 1..Len(Persisted) :
       /\ Persisted[j].name = "Unknown"
       /\ Persisted[j].lastRipenessUpdate = NoStamp
       /\ Persisted[k].name = "milk"
       /\ Persisted[k].brand = "Unknown"
       /\ Persisted[k].lastRipenessUpdate # NoStamp

----------------------------------------------------------------------------
(* Properties of the barcode lookup (SpecScan)                             *)

\* C21: a scan trigger that arrives while a lookup is in flight or during the
\* cool-down after it is ignored and starts no request, so at most one lookup
\* is in flight at any time.
C21_AtMostOneLookupInFlight == camera.fetching <= 1

\* C22: after every accepted scan trigger, whatever the outcome of the lookup,
\* the scanning state eventually returns to not-scanning, in the state and in
\* the rendered handlers, so that a later trigger is accepted again.
C22_ScanningEndsAfterCooldown ==
  camera.isScanning ~> (~camera.isScanning /\ ~camera.shown)

\* C22 witness: a lookup has failed, its cool-down is over, nothing is
\* pending and the handlers accept a trigger again.
C22_Witness ==
  /\ camera.last = "failed"
  /\ camera.fetching = 0
  /\ camera.timers = 0
  /\ ~camera.isScanning
  /\ ~camera.shown

\* A step in which a lookup ends without a product: not found, or a non-OK
\* response or a thrown error
FailedLookupStep ==
  /\ camera'.fetching = camera.fetching - 1
  /\ camera'.last \in {"notFound", "failed"}

\* C23: a failed barcode lookup shows one notice, returns null, starts no
\* further request and no storage operation, and leaves the in-memory and the
\* persisted collection as they were.
C23_FailedLookupChangesNothing ==
  [][FailedLookupStep =>
       /\ alert' # ""
       /\ alert' \in {ProductNotFound, FetchFailed}
       /\ ret' = Null
       /\ ingredients' = ingredients
       /\ stored' = stored
       /\ inflight' = inflight
       /\ camera'.isScanning = camera.isScanning]_vars

\* C23 witness: a lookup has just ended with "product not found" while the
\* in-memory and the persisted collection hold a record.
C23_Witness ==
  /\ camera.last = "notFound"
  /\ alert = ProductNotFound
  /\ ingredients # <<>>
  /\ Persisted # <<>>

\* A step in which a lookup ends with a product found
FoundLookupStep ==
  /\ camera'.fetching = camera.fetching - 1
  /\ camera'.last = "found"

\* C24: every lookup that finds a product creates a new entry: when scanBarcode
\* returns the new ingredient, the in-memory collection has grown by one and
\* holds a record with the ingredient's id.
C24_FoundLookupAddsEntry ==
  [][FoundLookupStep =>
       /\ ret' # Null
       /\ Len(ingredients') = Len(ingredients) + 1
       /\ ret'[1].id \in Ids(ingredients')]_vars

----------------------------------------------------------------------------
(* Properties of the form's ripeness stamp (SpecRipeness)                  *)

\* C25: lastRipenessUpdate records when ripeness was last set: the record a
\* save hands over carries the form's stamp, which is the time of the last
\* selection in the dropdown or the stamp of the record being edited, and is
\* absent if no ripeness was ever selected for the record; saving or editing
\* without selecting a ripeness neither sets nor changes it.
C25_StampIsLastRipenessSelection ==
  [][ret' # <<>> => ret'[1].lastRipenessUpdate = form.lastRipenessUpdate]_vars

----------------------------------------------------------------------------
(* Properties of a record's life (SpecLife)                                *)

\* C26: deleted is terminal: once a record was removed from the collection by
\* delete or by a confirmed reset, no record with its id is in the in-memory
\* collection again, whatever follows (submitting a form that was editing it,
\* failed writes, a reload after a restart), unless saveIngredient appends
\* one.
C26_DeletedIsTerminal == args.gone \cap Ids(ingredients) = {}

(***************************************************************************)
(* Reset, load and persistence of the hook (SpecHook)                      *)

\* C27: reset is all-or-nothing: cancelling the confirmation leaves the
\* collection, the editing record, the slot and the queued operations as they
\* were; after "Yes", when clearing the slot succeeded the in-memory collection
\* is empty, and when it failed the in-memory collection is the one before and
\* the failure is reported.
C27_ResetIsAllOrNothing ==
  /\ fn = "resetIngredients.cancel" =>
       /\ ingredients = args.pre.ingredients
       /\ editingIngredient = args.pre.editingIngredient
       /\ stored = args.pre.stored
       /\ inflight = args.pre.inflight
  /\ fn = "clearAllIngredients" =>
       IF args.ok
       THEN ingredients = <<>>
       ELSE /\ ingredients = args.pre.ingredients
            /\ alert = ResetFailed

\* C27 witness: clearing the slot failed with two records in memory; both are
\* still there and the error is shown.
C27_Witness ==
  /\ fn = "clearAllIngredients"
  /\ ~args.ok
  /\ Len(ingredients) = 2
  /\ alert = ResetFailed

\* C28: while isLoading is true no setItem is queued, and no step taken while
\* isLoading is true changes the slot, except a confirmed reset's removeItem.
C28_NoWriteBeforeLoad ==
  /\ isLoading => \A k \in 1..Len(inflight) : inflight[k].op # "setItem"
  /\ (fn \notin {"none", "clearAllIngredients"} /\ args.pre.isLoading) =>
       stored = args.pre.stored

\* C28 witness: after a restart, with records in the slot, an ingredient was
\* added while the load is pending; only the read is queued.
C28_Witness ==
  /\ isLoading
  /\ fn = "saveIngredient"
  /\ ingredients # <<>>
  /\ inflight = <<GetOp>>
  /\ stored.kind = "json"
  /\ JSON_parse(stored.text) # <<>>

\* C29: a record of the in-memory collection stays (by id) in the collection
\* over every step of the running hook other than a delete and a confirmed
\* reset's clear, a step taken while the initial load is pending included.
C29_NoAdditionLost ==
  [][fn' \notin {"deleteIngredient", "clearAllIngredients", "appRestart"} =>
       Ids(ingredients) \subseteq Ids(ingredients')]_vars

\* C30: once loaded, every step that changes the in-memory collection queues,
\* last, a setItem of the new collection; while nothing is queued neither the
\* collection nor the slot changes; and when the last queued operation is a
\* setItem that succeeds, the persisted collection is the in-memory one.
C30_PersistenceFollowsMemory ==
  [][/\ (~isLoading' /\ ingredients' # ingredients) =>
          /\ inflight' # <<>>
          /\ inflight'[Len(inflight')] = [op |-> "setItem", data |-> ingredients']
     /\ (inflight = <<>> /\ inflight' = <<>>) =>
          /\ ingredients' = ingredients
          /\ stored' = stored
     /\ (fn' = "saveIngredients" /\ args'.ok /\ inflight' = <<>>) =>
          /\ ~isLoading'
          /\ stored'.kind = "json"
          /\ JSON_parse(stored'.text) = ingredients']_vars

\* C30 witness: a reset succeeded, a write queued before it put records back
\* into the slot, and the write of the empty collection that the reset queued
\* has now succeeded: nothing is queued, memory and slot are both empty.
C30_Witness ==
  /\ fn = "saveIngredients"
  /\ args.ok
  /\ inflight = <<>>
  /\ resetInForce
  /\ ingredients = <<>>
  /\ args.pre.stored.kind = "json"
  /\ JSON_parse(args.pre.stored.text) # <<>>
  /\ Persisted = <<>>

====
